---- MODULE Spec2Model ----
(***************************************************************************)
(* pylons/commands.py: the two paster commands of Pylons, `controller`     *)
(* (ControllerCommand) and `shell` (ShellCommand), and the helper          *)
(* validate_name.  One behaviour is one invocation of one of them (or one  *)
(* direct call of validate_name).                                          *)
(*                                                                         *)
(* Strings are sequences of atoms.  An atom is a one-character string of   *)
(* user data ("a", "-", "_", "/") or a literal of the source kept whole    *)
(* ("controllers", "test_", a piece of a message).                         *)
(***************************************************************************)
EXTENDS Integers, Sequences, FiniteSets, TLC

\* Longest resolved controller name and directory the model draws.
MaxNameLen == 2
MaxDirLen == 3

sep == "/"

\* Characters a resolved name is made of (the resolver splits at every
\* separator, so a name holds none); characters of a resolved directory.
NameChars == {"a", "-"}
DirChars == {"a", sep}

SeqsUpTo(S, n) == UNION {[1..k -> S] : k \in 0..n}

\* What file_op.parse_path_name_args can return: name without separator
\* (empty when the argument names a directory), directory a relative path
\* without doubled separators.
Names == SeqsUpTo(NameChars, MaxNameLen)
Directories ==
    {d \in SeqsUpTo(DirChars, MaxDirLen) :
        /\ (d # <<>> => d[1] # sep)
        /\ \A i \in 1..(Len(d) - 1) : ~(d[i] = sep /\ d[i + 1] = sep)}

\* ------------------------------------------------------------ strings

\* str.replace(old, new) for one-character old and new.
replace(s, old, new) == [i \in 1..Len(s) |-> IF s[i] = old THEN new ELSE s[i]]

\* str.startswith(c) for a one-character c.
startswith(s, c) == s # <<>> /\ s[1] = c

\* os.path.join(a, b) of posixpath.
join(a, b) ==
    IF startswith(b, sep) THEN b
    ELSE IF a = <<>> \/ a[Len(a)] = sep THEN a \o b
    ELSE a \o <<sep>> \o b

\* s[1:]
slice1(s) == IF s = <<>> THEN <<>> ELSE SubSeq(s, 2, Len(s))

\* ------------------------------------------------------------ exceptions

NoExc == [cls |-> "None", msg |-> <<>>]

\* Exception classes external calls raise in the model; str(e) is msg.
ExcClasses == {"ImportError", "SyntaxError", "OSError"}
Raise(cls) == [cls |-> cls, msg |-> <<"message of ", cls>>]
BadCommand(msg) == [cls |-> "BadCommand", msg |-> msg]

\* Outcome of an external call: it returns, or raises one of ExcClasses.
Outcomes == {"ok"} \cup ExcClasses

\* ------------------------------------------------------------ validate_name

EmptyNameMsg == <<"Please give the name of a controller.">>

\* The pieces of the message between its four %s.
ModuleNamedLit == "\n\nA module named '"
AccessibleAsLit == "' is already present in your PYTHON_PATH.\n Choosing a conflicting name will likely cause import problems in\n your controller at some point. It's suggested that you choose an alternate\nname, and if you'd like that name to be accessible as '"
MapConnectLit == "', add a route\nto your projects config/routing.py file similar to:\n  map.connect('"
ControllerMyLit == "', controller='my_"

ModulePresentMsg(name) ==
    <<ModuleNamedLit>> \o name \o <<AccessibleAsLit>> \o name
    \o <<MapConnectLit>> \o name \o <<ControllerMyLit>> \o name \o <<"')">>

\* Mutant: the handler around the import catches every exception.
validate_name_bare_except(name, imp) ==
    IF name = <<>> THEN [ret |-> "none", exc |-> BadCommand(EmptyNameMsg)]
    ELSE [ret |-> "True", exc |-> NoExc]

\* Mutant: no handler around the import.
validate_name_no_except(name, imp) ==
    IF name = <<>> THEN [ret |-> "none", exc |-> BadCommand(EmptyNameMsg)]
    ELSE IF imp = "ok"
         THEN [ret |-> "none", exc |-> BadCommand(ModulePresentMsg(name))]
    ELSE [ret |-> "none", exc |-> Raise(imp)]

\* validate_name(name), imp the outcome of __import__(name): what it
\* returns (ret) or the exception it leaves with (exc).
validate_name(name, imp) ==
    IF name = <<>> THEN [ret |-> "none", exc |-> BadCommand(EmptyNameMsg)]
    ELSE IF imp = "ok"
         \* raised inside the try; BadCommand is no ImportError
         THEN [ret |-> "none", exc |-> BadCommand(ModulePresentMsg(name))]
    ELSE IF imp = "ImportError" THEN [ret |-> "True", exc |-> NoExc]
    ELSE [ret |-> "none", exc |-> Raise(imp)]

\* ------------------------------------------------------------ state

VARIABLES
    cmd,          \* the command this invocation runs
    pc,           \* position in the command
    raised,       \* the exception the command left with, NoExc if none
    origin,       \* where the first exception was raised, and which
    validation,   \* the call of validate_name: argument, import, result
    \* ControllerCommand
    no_test,      \* self.options.no_test
    resolved,     \* what parse_path_name_args returned
    name, directory, testname,
    rendered,     \* the files copy_file rendered, in order
    \* ShellCommand
    args,         \* self.args
    fs,           \* the config files present in the current directory
    isfile_calls, \* the paths os.path.isfile was asked about
    config_file,
    CONFIG,       \* paste.deploy.config.CONFIG, a stack
    sys_path,     \* sys.path
    wsgiapp, modules, mapper, test_app,
    probe,        \* how test_app.get('/').g ended
    global_obj, locs,
    g_stack,      \* pylons.g, a stack
    consoles,     \* the consoles started, in order
    stage,        \* the launcher's stage
    raisedIn      \* the steps of the launcher that raised

ctrlVars == <<no_test, resolved, name, directory, testname, rendered>>
shellVars == <<args, fs, isfile_calls, config_file, CONFIG, sys_path, wsgiapp,
               modules, mapper, test_app, probe, global_obj, locs, g_stack,
               consoles, stage, raisedIn>>
vars == <<cmd, pc, raised, origin, validation, ctrlVars, shellVars>>

NoOrigin == [step |-> "none", exc |-> NoExc]
NoValidation == [called |-> FALSE, name |-> <<>>, imp |-> "none",
                 ret |-> "none", exc |-> NoExc]
NoPair == [name |-> <<>>, directory |-> <<>>, ok |-> FALSE]

ConfigFiles == {"development.ini", "my-development.ini"}
here_dir == "/home/proj"
pkg_name == "proj"
routing_package == <<pkg_name, ".config.routing">>
models_package == <<pkg_name, ".models">>
helpers_package == <<pkg_name, ".lib.helpers">>
packs == <<routing_package, models_package, helpers_package>>

Init ==
    /\ cmd \in {"controller", "shell", "validate_name"}
    /\ pc = "start"
    /\ raised = NoExc
    /\ origin = NoOrigin
    /\ validation = NoValidation
    /\ no_test \in (IF cmd = "controller" THEN BOOLEAN ELSE {FALSE})
    /\ resolved = NoPair
    /\ name = <<>>
    /\ directory = <<>>
    /\ testname = <<>>
    /\ rendered = <<>>
    /\ args \in (IF cmd = "shell"
                 THEN {<<>>} \cup {<<f>> : f \in ConfigFiles} ELSE {<<>>})
    /\ fs \in (IF cmd = "shell" THEN SUBSET ConfigFiles ELSE {{}})
    /\ isfile_calls = {}
    /\ config_file = "None"
    /\ CONFIG = <<>>
    /\ sys_path = <<"site-packages">>
    /\ wsgiapp = "None"
    /\ modules = {}
    /\ mapper = "None"
    /\ test_app = "None"
    /\ probe = "none"
    /\ global_obj = "None"
    /\ locs = <<>>
    /\ g_stack = <<>>
    /\ consoles = <<>>
    /\ stage = "START"
    /\ raisedIn = {}

\* ------------------------------------------------------------ validate_name, called directly

ValidateNameCall ==
    /\ cmd = "validate_name" /\ pc = "start"
    /\ \E n \in Names, imp \in Outcomes :
        LET r == validate_name(n, imp) IN
        /\ validation' = [called |-> TRUE, name |-> n,
                          imp |-> IF n = <<>> THEN "none" ELSE imp,
                          ret |-> r.ret, exc |-> r.exc]
        /\ raised' = r.exc
        /\ pc' = IF r.exc = NoExc THEN "done" ELSE "failed"
    /\ UNCHANGED <<cmd, origin, ctrlVars, shellVars>>

\* ------------------------------------------------------------ ControllerCommand.command

NoEggInfoMsg == <<"No egg_info directory was found">>

\* Mutant: the outer handler lets the exception through as it is.
command_except_reraise(e) == e

\* The outer handler: str(sys.exc_info()[1]) in a new BadCommand.
command_except(e) == BadCommand(<<"An unknown error ocurred, ">> \o e.msg)

\* An exception e0 raised in `step` reaches the outer handler as e.
CtrlFail(step, e0, e) ==
    /\ origin' = [step |-> step, exc |-> e0]
    /\ raised' = command_except(e)
    /\ pc' = "failed"

\* fullname, with the separator put in front of it when it has none.
fullname(d, n) ==
    LET f == join(d, n) IN IF ~startswith(f, sep) THEN <<sep>> \o f ELSE f

\* Mutant: no separator is put in front before the first character is cut.
testname_of_no_sep(d, n) == slice1(replace(join(d, n), sep, "_"))

\* testname = fullname.replace(os.sep, '_')[1:]
testname_of(d, n) == slice1(replace(fullname(d, n), sep, "_"))

controller_file(d, n) ==
    [template |-> "controller.py_tmpl",
     dest |-> join(<<"controllers">>, d), filename |-> n]

test_file(tn) ==
    [template |-> "test_controller.py_tmpl",
     dest |-> join(<<"tests">>, <<"functional">>), filename |-> <<"test_">> \o tn]

\* file_op = FileOp(...), outside the inner try;
\* name, directory = file_op.parse_path_name_args(self.args[0]); whatever
\* it raises becomes BadCommand('No egg_info directory was found').
CtrlParse ==
    /\ cmd = "controller" /\ pc = "start"
    /\ \/ \E n \in Names, d \in Directories :
            /\ resolved' = [name |-> n, directory |-> d, ok |-> TRUE]
            /\ name' = n
            /\ directory' = d
            /\ pc' = "parsed"
            /\ UNCHANGED <<raised, origin>>
       \/ \E c \in ExcClasses :
            /\ CtrlFail("FileOp", Raise(c), Raise(c))
            /\ UNCHANGED <<resolved, name, directory>>
       \/ \E c \in ExcClasses :
            /\ CtrlFail("parse_path_name_args", Raise(c), BadCommand(NoEggInfoMsg))
            /\ UNCHANGED <<resolved, name, directory>>
    /\ UNCHANGED <<cmd, validation, no_test, testname, rendered, shellVars>>

\* Mutant: what validate_name raises is dropped and the command goes on.
CtrlValidateIgnored ==
    /\ cmd = "controller" /\ pc = "parsed"
    /\ name' = replace(name, "-", "_")
    /\ \E imp \in Outcomes :
        LET r == validate_name(name', imp) IN
        /\ validation' = [called |-> TRUE, name |-> name',
                          imp |-> IF name' = <<>> THEN "none" ELSE imp,
                          ret |-> r.ret, exc |-> r.exc]
        /\ pc' = "validated"
        /\ UNCHANGED <<raised, origin>>
    /\ UNCHANGED <<cmd, no_test, resolved, directory, testname, rendered, shellVars>>

\* name = name.replace('-', '_'); validate_name(name)
CtrlValidate ==
    /\ cmd = "controller" /\ pc = "parsed"
    /\ name' = replace(name, "-", "_")
    /\ \E imp \in Outcomes :
        LET r == validate_name(name', imp) IN
        /\ validation' = [called |-> TRUE, name |-> name',
                          imp |-> IF name' = <<>> THEN "none" ELSE imp,
                          ret |-> r.ret, exc |-> r.exc]
        /\ IF r.exc = NoExc
           THEN pc' = "validated" /\ UNCHANGED <<raised, origin>>
           ELSE CtrlFail("validate_name", r.exc, r.exc)
    /\ UNCHANGED <<cmd, no_test, resolved, directory, testname, rendered, shellVars>>

\* fullname, controller_name, testname, file_op.template_vars.update(...)
CtrlNames ==
    /\ cmd = "controller" /\ pc = "validated"
    /\ \/ /\ testname' = testname_of(directory, name)
          /\ pc' = "named"
          /\ UNCHANGED <<raised, origin>>
       \/ \E c \in ExcClasses :
            /\ CtrlFail("class_name_from_module_name", Raise(c), Raise(c))
            /\ UNCHANGED testname
    /\ UNCHANGED <<cmd, validation, no_test, resolved, name, directory, rendered,
                   shellVars>>

\* file_op.copy_file(template='controller.py_tmpl', ...)
CtrlRenderController ==
    /\ cmd = "controller" /\ pc = "named"
    /\ \/ /\ rendered' = Append(rendered, controller_file(directory, name))
          /\ pc' = "controller_rendered"
          /\ UNCHANGED <<raised, origin>>
       \/ \E c \in ExcClasses :
            /\ CtrlFail("copy_file controller", Raise(c), Raise(c))
            /\ UNCHANGED rendered
    /\ UNCHANGED <<cmd, validation, no_test, resolved, name, directory, testname,
                   shellVars>>

\* Mutant: the test is rendered whatever the option says.
CtrlRenderTestAlways ==
    /\ cmd = "controller" /\ pc = "controller_rendered"
    /\ rendered' = Append(rendered, test_file(testname))
    /\ pc' = "done"
    /\ UNCHANGED <<cmd, raised, origin, validation, no_test, resolved, name,
                   directory, testname, shellVars>>

\* if not self.options.no_test: file_op.copy_file(template='test_controller.py_tmpl', ...)
CtrlRenderTest ==
    /\ cmd = "controller" /\ pc = "controller_rendered"
    /\ \/ /\ no_test
          /\ pc' = "done"
          /\ UNCHANGED <<raised, origin, rendered>>
       \/ /\ ~no_test
          /\ rendered' = Append(rendered, test_file(testname))
          /\ pc' = "done"
          /\ UNCHANGED <<raised, origin>>
       \/ /\ ~no_test
          /\ \E c \in ExcClasses :
                CtrlFail("copy_file test", Raise(c), Raise(c))
          /\ UNCHANGED rendered
    /\ UNCHANGED <<cmd, validation, no_test, resolved, name, directory, testname,
                   shellVars>>

\* ------------------------------------------------------------ ShellCommand.command

UsageMsg(f) ==
    <<"usage", "Error: CONFIG_FILE not found at: .", sep, f,
      "\nPlease specify a CONFIG_FILE">>

\* What test_app.get('/').g can be: None, an object that is false (empty),
\* an object that is true.
GlobalsValues == {"None", "empty", "globals"}
truthy(obj) == obj = "globals"

Stages == <<"START", "CONFIG_LOADED", "APP_LOADED", "MODULES_IMPORTED",
            "NAMESPACE_BUILT", "INTERACTIVE">>

\* An exception raised in `step` leaves the command.
Abort(step, e) ==
    /\ raised' = e
    /\ raisedIn' = raisedIn \cup {step}
    /\ pc' = "aborted"

\* Mutant: the default config file is taken without asking whether it is there.
ShellArgsUnchecked ==
    /\ cmd = "shell" /\ pc = "start"
    /\ config_file' = IF Len(args) = 0 THEN "development.ini" ELSE args[1]
    /\ pc' = "args"
    /\ UNCHANGED <<cmd, raised, origin, validation, ctrlVars, args, fs,
                   isfile_calls, CONFIG, sys_path, wsgiapp, modules, mapper,
                   test_app, probe, global_obj, locs, g_stack, consoles, stage,
                   raisedIn>>

\* if len(self.args) == 0: ... else: config_file = self.args[0]
ShellArgs ==
    /\ cmd = "shell" /\ pc = "start"
    /\ \/ /\ Len(args) = 0
          /\ config_file' = "development.ini"
          /\ isfile_calls' = isfile_calls \cup {"development.ini"}
          /\ IF "development.ini" \notin fs
             THEN Abort("args", BadCommand(UsageMsg("development.ini")))
             ELSE pc' = "args" /\ UNCHANGED <<raised, raisedIn>>
       \/ /\ Len(args) # 0
          /\ config_file' = args[1]
          /\ pc' = "args"
          /\ UNCHANGED <<isfile_calls, raised, raisedIn>>
    /\ UNCHANGED <<cmd, origin, validation, ctrlVars, args, fs, CONFIG, sys_path,
                   wsgiapp, modules, mapper, test_app, probe, global_obj, locs,
                   g_stack, consoles, stage>>

\* config_name, here_dir, locs, pkg_name; app_conf = appconfig(...);
\* paste.deploy.config.CONFIG.push_thread_config(conf)
LoadConfig ==
    /\ cmd = "shell" /\ pc = "args"
    /\ locs' = ("__name__" :> "pylons-admin")
    /\ \/ /\ config_file \in fs
          /\ CONFIG' = Append(CONFIG, [app |-> config_file, app_conf |-> config_file])
          /\ stage' = "CONFIG_LOADED"
          /\ pc' = "config"
          /\ UNCHANGED <<raised, raisedIn>>
       \/ \E c \in ExcClasses :
            /\ Abort("appconfig", Raise(c))
            /\ UNCHANGED <<CONFIG, stage>>
    /\ UNCHANGED <<cmd, origin, validation, ctrlVars, args, fs, isfile_calls,
                   config_file, sys_path, wsgiapp, modules, mapper, test_app,
                   probe, global_obj, g_stack, consoles>>

\* Mutant: a failure of loadapp is swallowed and the command goes on.
LoadAppSwallowed ==
    /\ cmd = "shell" /\ pc = "config"
    /\ sys_path' = <<here_dir>> \o sys_path
    /\ \/ wsgiapp' = "wsgiapp" /\ stage' = "APP_LOADED" /\ UNCHANGED raisedIn
       \/ raisedIn' = raisedIn \cup {"loadapp"} /\ UNCHANGED <<wsgiapp, stage>>
    /\ pc' = "app"
    /\ UNCHANGED <<cmd, raised, origin, validation, ctrlVars, args, fs,
                   isfile_calls, config_file, CONFIG, modules, mapper, test_app,
                   probe, global_obj, locs, g_stack, consoles>>

\* sys.path.insert(0, here_dir); wsgiapp = loadapp(...)
LoadApp ==
    /\ cmd = "shell" /\ pc = "config"
    /\ sys_path' = <<here_dir>> \o sys_path
    /\ \/ /\ wsgiapp' = "wsgiapp"
          /\ stage' = "APP_LOADED"
          /\ pc' = "app"
          /\ UNCHANGED <<raised, raisedIn>>
       \/ \E c \in ExcClasses :
            /\ Abort("loadapp", Raise(c))
            /\ UNCHANGED <<wsgiapp, stage>>
    /\ UNCHANGED <<cmd, origin, validation, ctrlVars, args, fs, isfile_calls,
                   config_file, CONFIG, modules, mapper, test_app, probe,
                   global_obj, locs, g_stack, consoles>>

\* for pack in [routing_package, models_package, helpers_package]:
\*     __import__(pack)
\* one turn of the loop.
ImportPack ==
    /\ cmd = "shell" /\ pc = "app"
    /\ LET i == Cardinality(modules) + 1 IN
       \/ /\ modules' = modules \cup {packs[i]}
          /\ IF i = Len(packs)
             THEN stage' = "MODULES_IMPORTED" /\ pc' = "imported"
             ELSE UNCHANGED <<stage, pc>>
          /\ UNCHANGED <<raised, raisedIn>>
       \/ \E c \in ExcClasses :
            /\ Abort("import", Raise(c))
            /\ UNCHANGED <<modules, stage>>
    /\ UNCHANGED <<cmd, origin, validation, ctrlVars, args, fs, isfile_calls,
                   config_file, CONFIG, sys_path, wsgiapp, mapper, test_app,
                   probe, global_obj, locs, g_stack, consoles>>

\* make_map = getattr(...); mapper = make_map();
\* test_app = app = paste.fixture.TestApp(wsgiapp)
MakeMap ==
    /\ cmd = "shell" /\ pc = "imported"
    /\ \/ /\ mapper' = "mapper"
          /\ test_app' = "TestApp"
          /\ pc' = "mapped"
          /\ UNCHANGED <<raised, raisedIn>>
       \/ \E step \in {"getattr make_map", "make_map", "TestApp"}, c \in ExcClasses :
            /\ Abort(step, Raise(c))
            /\ UNCHANGED <<mapper, test_app>>
    /\ UNCHANGED <<cmd, origin, validation, ctrlVars, args, fs, isfile_calls,
                   config_file, CONFIG, sys_path, wsgiapp, modules, probe,
                   global_obj, locs, g_stack, consoles, stage>>

\* global_obj = None; try: global_obj = test_app.get('/').g; except: pass
Probe ==
    /\ cmd = "shell" /\ pc = "mapped"
    /\ \/ \E g \in GlobalsValues :
            /\ global_obj' = g
            /\ probe' = "returned"
            /\ UNCHANGED raisedIn
       \/ \E c \in ExcClasses :
            /\ global_obj' = "None"
            /\ probe' = "raised"
            /\ raisedIn' = raisedIn \cup {"probe"}
    /\ pc' = "probed"
    /\ UNCHANGED <<cmd, raised, origin, validation, ctrlVars, args, fs,
                   isfile_calls, config_file, CONFIG, sys_path, wsgiapp, modules,
                   mapper, test_app, locs, g_stack, consoles, stage>>

\* The names locs.update(...) binds.
namespace ==
    [model |-> models_package, mapper |-> <<mapper>>, wsgiapp |-> <<wsgiapp>>,
     app |-> <<test_app>>, h |-> helpers_package]

\* Mutant: g is bound whenever the probe gave an object, empty or not.
with_g_not_none(ns) ==
    IF global_obj # "None" THEN ("g" :> <<global_obj>>) @@ ns ELSE ns

\* if global_obj: locs['g'] = global_obj
with_g(ns) == IF truthy(global_obj) THEN ("g" :> <<global_obj>>) @@ ns ELSE ns

\* locs.update(...); if global_obj: locs['g'] = ...; pylons.g.push_object(...)
BuildNamespace ==
    /\ cmd = "shell" /\ pc = "probed"
    /\ locs' = with_g(namespace @@ locs)
    /\ \/ /\ g_stack' = IF "g" \in DOMAIN locs'
                        THEN Append(g_stack, global_obj) ELSE g_stack
          /\ stage' = "NAMESPACE_BUILT"
          /\ pc' = "namespace"
          /\ UNCHANGED <<raised, raisedIn>>
       \/ /\ "g" \in DOMAIN locs'
          /\ \E c \in ExcClasses : Abort("push_object", Raise(c))
          /\ UNCHANGED <<g_stack, stage>>
    /\ UNCHANGED <<cmd, origin, validation, ctrlVars, args, fs, isfile_calls,
                   config_file, CONFIG, sys_path, wsgiapp, modules, mapper,
                   test_app, probe, global_obj, consoles>>

\* try: import IPython; class CustomIPShell ...; shell = IPython.Shell.IPShell(...)
\* up to the call of shell.mainloop(); except ImportError: the other console.
StartIPShell ==
    /\ cmd = "shell" /\ pc = "namespace"
    /\ \/ /\ raisedIn' = raisedIn \cup {"import IPython"}
          /\ pc' = "except ImportError"
          /\ UNCHANGED <<modules, consoles, stage, raised>>
       \/ \E c \in ExcClasses \ {"ImportError"} :
            /\ Abort("import IPython", Raise(c))
            /\ UNCHANGED <<modules, consoles, stage>>
       \/ /\ modules' = modules \cup {<<"IPython">>}
          /\ \/ /\ consoles' = Append(consoles, [shell |-> "IPShell", ns |-> locs])
                /\ stage' = "INTERACTIVE"
                /\ pc' = "mainloop"
                /\ UNCHANGED <<raised, raisedIn>>
             \/ /\ raisedIn' = raisedIn \cup {"IPShell"}
                /\ pc' = "except ImportError"
                /\ UNCHANGED <<consoles, stage, raised>>
             \/ \E c \in ExcClasses \ {"ImportError"} :
                  /\ Abort("IPShell", Raise(c))
                  /\ UNCHANGED <<consoles, stage>>
    /\ UNCHANGED <<cmd, origin, validation, ctrlVars, args, fs, isfile_calls,
                   config_file, CONFIG, sys_path, wsgiapp, mapper, test_app,
                   probe, global_obj, locs, g_stack>>

\* shell.mainloop(), inside the try: it returns, or raises; an ImportError
\* out of it is caught by the except ImportError of the try.
Mainloop ==
    /\ cmd = "shell" /\ pc = "mainloop"
    /\ \/ pc' = "done" /\ UNCHANGED <<raised, raisedIn>>
       \/ /\ raisedIn' = raisedIn \cup {"mainloop"}
          /\ pc' = "except ImportError"
          /\ UNCHANGED raised
       \/ \E c \in ExcClasses \ {"ImportError"} : Abort("mainloop", Raise(c))
    /\ UNCHANGED <<cmd, origin, validation, ctrlVars, args, fs, isfile_calls,
                   config_file, CONFIG, sys_path, wsgiapp, modules, mapper,
                   test_app, probe, global_obj, locs, g_stack, consoles, stage>>

\* except ImportError: import code; shell = CustomShell(locals=locs);
\* try: import readline; except ImportError: pass; up to shell.interact(banner)
StartCustomShell ==
    /\ cmd = "shell" /\ pc = "except ImportError"
    /\ consoles' = Append(consoles, [shell |-> "CustomShell", ns |-> locs])
    /\ \/ modules' = modules \cup {<<"code">>, <<"readline">>}
       \/ modules' = modules \cup {<<"code">>}
    /\ stage' = "INTERACTIVE"
    /\ pc' = "interact"
    /\ UNCHANGED <<cmd, raised, origin, validation, ctrlVars, args, fs,
                   isfile_calls, config_file, CONFIG, sys_path, wsgiapp, mapper,
                   test_app, probe, global_obj, locs, g_stack, raisedIn>>

\* shell.interact(banner) returns, or raises.
Interact ==
    /\ cmd = "shell" /\ pc = "interact"
    /\ \/ pc' = "done" /\ UNCHANGED <<raised, raisedIn>>
       \/ \E c \in ExcClasses : Abort("interact", Raise(c))
    /\ UNCHANGED <<cmd, origin, validation, ctrlVars, args, fs, isfile_calls,
                   config_file, CONFIG, sys_path, wsgiapp, modules, mapper,
                   test_app, probe, global_obj, locs, g_stack, consoles, stage>>

\* ------------------------------------------------------------ specification

Next ==
    \/ ValidateNameCall
    \/ CtrlParse
    \/ CtrlValidate
    \/ CtrlNames
    \/ CtrlRenderController
    \/ CtrlRenderTest
    \/ ShellArgs
    \/ LoadConfig
    \/ LoadApp
    \/ ImportPack
    \/ MakeMap
    \/ Probe
    \/ BuildNamespace
    \/ StartIPShell
    \/ Mainloop
    \/ StartCustomShell
    \/ Interact

Spec == Init /\ [][Next]_vars

\* ------------------------------------------------------------ properties

IsSuffix(s, t) == Len(s) <= Len(t) /\ SubSeq(t, Len(t) - Len(s) + 1, Len(t)) = s

\* s occurs in t right after the atom lit.
Follows(lit, s, t) ==
    \E i \in 1..Len(t) :
        /\ t[i] = lit
        /\ i + Len(s) <= Len(t)
        /\ SubSeq(t, i + 1, i + Len(s)) = s

\* The number of places of t where s occurs.
Occurrences(s, t) ==
    Cardinality({i \in 1..(Len(t) - Len(s) + 1) : SubSeq(t, i, i + Len(s) - 1) = s})

UnknownErrorLit == "An unknown error ocurred, "

\* C1, as stated: whatever is raised in the generation sequence, path/name
\* parsing included, leaves the command as a BadCommand whose message
\* carries the message of the exception first raised.
C1_AnyMessageCarried ==
    (cmd = "controller" /\ pc = "failed") =>
        /\ raised.cls = "BadCommand"
        /\ IsSuffix(origin.exc.msg, raised.msg)

\* The message the outer handler is given: the fixed egg_info text when
\* parse_path_name_args raised, the message of the exception otherwise.
Carried ==
    IF origin.step = "parse_path_name_args" THEN NoEggInfoMsg ELSE origin.exc.msg

\* C1, amended: the controller command leaves with an exception exactly
\* when a step raised; the exception is then a BadCommand and no other
\* type, and its message is "An unknown error ocurred, " followed by the
\* message of the exception raised, except that for a failure of path/name
\* parsing it is followed by "No egg_info directory was found" instead.
C1_BadCommandCarriesMessage ==
    cmd = "controller" =>
        /\ (raised # NoExc) <=> (pc = "failed")
        /\ (pc = "failed") <=> (origin.step # "none")
        /\ pc = "failed" =>
            /\ raised.cls = "BadCommand"
            /\ raised.msg = <<UnknownErrorLit>> \o Carried
            /\ IsSuffix(Carried, raised.msg)

C1_Witness ==
    /\ cmd = "controller" /\ pc = "failed"
    /\ origin.step = "copy_file test"
    /\ origin.exc.cls = "OSError"
    /\ raised.cls = "BadCommand"

\* The joined path with its leading separator stripped and every other
\* separator turned into an underscore.
Flat(p) == replace(IF startswith(p, sep) THEN slice1(p) ELSE p, sep, "_")

\* C2: a successful run renders controller.py_tmpl to controllers/<directory>
\* with file name <name>, and without --no-test renders
\* test_controller.py_tmpl to tests/functional with file name test_<flat>,
\* <flat> being the joined directory/name path without its leading separator
\* and with underscores for the other separators; <name> is the resolved
\* name after its hyphens became underscores.
C2_RenderedPaths ==
    (cmd = "controller" /\ pc = "done") =>
        LET d == resolved.directory
            n == replace(resolved.name, "-", "_")
        IN  /\ resolved.ok
            /\ Len(rendered) >= 1
            /\ rendered[1] = [template |-> "controller.py_tmpl",
                              dest |-> <<"controllers", sep>> \o d,
                              filename |-> n]
            /\ ~no_test =>
                /\ Len(rendered) = 2
                /\ rendered[2] = [template |-> "test_controller.py_tmpl",
                                  dest |-> <<"tests", sep, "functional">>,
                                  filename |-> <<"test_">> \o Flat(join(d, n))]

C2_Witness ==
    /\ cmd = "controller" /\ pc = "done" /\ ~no_test
    /\ resolved.directory = <<"a", sep, "a">>
    /\ resolved.name = <<"a", "-">>
    /\ rendered[2].filename = <<"test_", "a", "_", "a", "_", "a", "_">>

Templates == [i \in DOMAIN rendered |-> rendered[i].template]

\* C3: with --no-test no test file is ever rendered and a successful run
\* has rendered the controller file alone; without it a successful run has
\* rendered the controller file and then the test file.
C3_NoTestOption ==
    cmd = "controller" =>
        /\ no_test =>
            \A i \in DOMAIN rendered : rendered[i].template # "test_controller.py_tmpl"
        /\ pc = "done" =>
            Templates = IF no_test
                        THEN <<"controller.py_tmpl">>
                        ELSE <<"controller.py_tmpl", "test_controller.py_tmpl">>

C3_Witness ==
    /\ cmd = "controller" /\ pc = "done" /\ no_test
    /\ Templates = <<"controller.py_tmpl">>

\* C4: without an argument and without development.ini the shell command
\* leaves with BadCommand having imported nothing, loaded and pushed no
\* configuration, left sys.path as it was and instantiated no application;
\* with an argument os.path.isfile is never asked and the argument is the
\* config file.
C4_UsageErrorFirst ==
    cmd = "shell" =>
        /\ (Len(args) = 0 /\ "development.ini" \notin fs /\ pc # "start") =>
            /\ pc = "aborted"
            /\ raised = BadCommand(UsageMsg("development.ini"))
            /\ modules = {}
            /\ CONFIG = <<>>
            /\ sys_path = <<"site-packages">>
            /\ wsgiapp = "None"
        /\ (Len(args) = 1 /\ pc # "start") =>
            /\ isfile_calls = {}
            /\ config_file = args[1]

C4_Witness ==
    /\ cmd = "shell" /\ Len(args) = 0 /\ "development.ini" \notin fs
    /\ pc = "aborted"
    /\ isfile_calls = {"development.ini"}

\* C5: every console is started with a namespace that binds model, mapper,
\* h, wsgiapp and app to the objects loaded, and binds g only if the probe
\* returned and its object is true; if the probe raised or gave None or an
\* empty object the namespace has no g.
C5_Namespace ==
    \A i \in DOMAIN consoles :
        LET ns == consoles[i].ns IN
        /\ {"model", "mapper", "h", "wsgiapp", "app"} \subseteq DOMAIN ns
        /\ ns["model"] = models_package /\ ns["h"] = helpers_package
        /\ ns["mapper"] = <<"mapper">> /\ ns["wsgiapp"] = <<"wsgiapp">>
        /\ ns["app"] = <<"TestApp">>
        /\ "g" \in DOMAIN ns => (probe = "returned" /\ global_obj = "globals")
        /\ (probe = "raised" \/ global_obj \in {"None", "empty"}) => "g" \notin DOMAIN ns

C5_Witness ==
    /\ consoles # <<>>
    /\ probe = "returned" /\ global_obj = "empty"
    /\ "g" \notin DOMAIN consoles[1].ns

\* The steps before INTERACTIVE whose failure leaves the command.
FatalSteps ==
    {"args", "appconfig", "loadapp", "import", "getattr make_map", "make_map",
     "TestApp", "push_object"}

\* What each stage stands for in the state of the launcher.
StageMeans ==
    /\ stage \in {Stages[i] : i \in 2..6} => CONFIG # <<>>
    /\ stage \in {Stages[i] : i \in 3..6} => wsgiapp = "wsgiapp"
    /\ stage \in {Stages[i] : i \in 4..6} =>
            {routing_package, models_package, helpers_package} \subseteq modules
    /\ stage \in {Stages[i] : i \in 5..6} => "mapper" \in DOMAIN locs
    /\ stage = "INTERACTIVE" <=> consoles # <<>>

StageStep ==
    stage' # stage => \E i \in 1..5 : stage = Stages[i] /\ stage' = Stages[i + 1]

FatalAborts ==
    /\ (raisedIn \cap FatalSteps # {}) =>
            (pc = "aborted" /\ stage # "INTERACTIVE" /\ consoles = <<>>)
    /\ probe = "raised" =>
            ("probe" \in raisedIn /\ (pc = "aborted" => raisedIn # {"probe"}))

\* C6: the stage only ever moves to the next one of START, CONFIG_LOADED,
\* APP_LOADED, MODULES_IMPORTED, NAMESPACE_BUILT, INTERACTIVE, each stage
\* standing for the work done; once a step before INTERACTIVE has raised
\* the command is aborted and no console is ever started, except that an
\* exception of the globals probe aborts nothing.
C6_StageOrder == [](StageMeans /\ FatalAborts) /\ [][StageStep]_vars

C6_Witness ==
    /\ stage = "INTERACTIVE"
    /\ probe = "raised"
    /\ pc = "done"

\* C7, as stated: validate_name returns True for every non-empty name
\* whose import does not complete, however it fails.
C7_AnyImportFailure ==
    (validation.called /\ validation.name # <<>> /\ validation.imp # "ok") =>
        (validation.ret = "True" /\ validation.exc = NoExc)

\* C7, amended: validate_name returns True for every non-empty name whose
\* import raises ImportError; when the import raises anything else,
\* validate_name returns nothing and leaves with that exception.
C7_ImportErrorOnly ==
    (validation.called /\ validation.name # <<>> /\ validation.imp # "ok") =>
        IF validation.imp = "ImportError"
        THEN validation.ret = "True" /\ validation.exc = NoExc
        ELSE validation.ret = "none" /\ validation.exc = Raise(validation.imp)

C7_Witness ==
    /\ cmd = "validate_name" /\ pc = "done"
    /\ validation.called /\ validation.name = <<"a", "-">>
    /\ validation.imp = "ImportError"
    /\ validation.ret = "True"

\* C8: for a non-empty name whose import completes, validate_name leaves
\* with a BadCommand whose message holds the name at least twice, once
\* after "A module named '" and once after "accessible as '", and holds the
\* map.connect(' snippet followed by the name.
C8_ModulePresent ==
    (validation.called /\ validation.name # <<>> /\ validation.imp = "ok") =>
        LET n == validation.name
            m == validation.exc.msg
        IN  /\ validation.ret = "none"
            /\ validation.exc.cls = "BadCommand"
            /\ Occurrences(n, m) >= 2
            /\ Follows(ModuleNamedLit, n, m)
            /\ Follows(AccessibleAsLit, n, m)
            /\ Follows(MapConnectLit, n, m)

C8_Witness ==
    /\ cmd = "validate_name" /\ pc = "failed"
    /\ validation.name = <<"a", "a">> /\ validation.imp = "ok"
    /\ raised.cls = "BadCommand"
    /\ Occurrences(<<"a", "a">>, raised.msg) = 4

\* C9: at most one console is started, a finished invocation has started
\* exactly one, and the basic console is started only as the first console
\* and only when importing IPython or setting its shell up raised
\* ImportError.
C9_OneConsole ==
    cmd = "shell" =>
        /\ Len(consoles) <= 1
        /\ pc = "done" => Len(consoles) = 1
        /\ \A i \in DOMAIN consoles :
            consoles[i].shell = "CustomShell" =>
                (i = 1 /\ raisedIn \cap {"import IPython", "IPShell"} # {})

\* C10: validate_name is called on the resolved name with underscores for
\* its hyphens; a file is rendered only after it returned; and when
\* parse_path_name_args raised, or the name given to validate_name is
\* empty or importable, the command has failed with nothing rendered.
C10_ValidatedBeforeRender ==
    cmd = "controller" =>
        /\ validation.called =>
            (resolved.ok /\ validation.name = replace(resolved.name, "-", "_"))
        /\ rendered # <<>> => (validation.called /\ validation.ret = "True")
        /\ origin.step \in {"FileOp", "parse_path_name_args", "validate_name"} =>
            (pc = "failed" /\ rendered = <<>>)
        /\ (validation.called /\ (validation.name = <<>> \/ validation.imp = "ok")) =>
            (pc = "failed" /\ origin.step = "validate_name" /\ rendered = <<>>)

C10_Witness ==
    /\ cmd = "controller" /\ pc = "failed"
    /\ origin.step = "validate_name"
    /\ resolved.name = <<"a", "-">> /\ validation.name = <<"a", "_">>
    /\ validation.imp = "ok"
    /\ rendered = <<>>

====
